---- MODULE Spec2Model ----
(***************************************************************************)
(* Model of the dataroom chatbot backend (src/backend).                    *)
(*                                                                         *)
(* The service is a set of identical instances (app.py runs on Cloud Run;  *)
(* test_rag.py is one more process that rebuilds into the same bucket).    *)
(* Every instance owns an EmbeddingManager (with its private temp files)   *)
(* and a RAGManager (its in-memory index and metadata); all instances      *)
(* share the two blobs of the Cloud Storage bucket.  No handler of app.py  *)
(* awaits anything but coroutines that make blocking calls, so inside one  *)
(* instance a handler runs to completion before the next one starts; the   *)
(* instances interleave at every blob-store or provider call.              *)
(***************************************************************************)
EXTENDS Integers, Sequences, FiniteSets, TLC

VARIABLES
    blobIndex,    \* bucket blob faiss_index/index.faiss   (NoBlob or a vector list)
    blobMeta,     \* bucket blob faiss_index/metadata.json (NoBlob or a record list)
    pc,           \* per instance: position of the handler being served
    localIndex,   \* per instance: EmbeddingManager.index_path file
    localMeta,    \* per instance: EmbeddingManager.metadata_path file
    ragIndex,     \* per instance: RAGManager.index
    ragMeta,      \* per instance: RAGManager.metadata
    job,          \* per instance: locals of the update_embeddings call in progress
    response,     \* the last response update_embeddings returned, and the instance
    chat,         \* the answer_question call in progress (locals, calls made, result)
    split,        \* the _split_into_chunks call in progress (argument, result)
    built,        \* history: the (vectors, metadata) pairs handed to _create_and_save_index
    faults,       \* history: number of provider / storage / disk failures so far
    nUpdates      \* history: number of update_embeddings calls that reached the drive

vars == <<blobIndex, blobMeta, pc, localIndex, localMeta, ragIndex, ragMeta,
          job, response, chat, split, built, faults, nUpdates>>

-----------------------------------------------------------------------------
(* Bounds *)

MaxUpdates == 2
MaxFaults == 1

(* Program constants, scaled down so that every branch of the chunker and of *)
(* the batching loop is exercised by short token streams (source values:    *)
(* chunk_size 300, overlap_tokens 50, look-back 20, batch_size 100).  The    *)
(* scaling keeps the order  look-back - 2 < overlap_tokens < chunk_size.     *)
chunk_size == 4
overlap_tokens == 2
lookback == 3
batch_size == 2

\* The processes that share the bucket: two service instances (or the service
\* and a run of test_rag.py)
Procs == {1, 2}

\* A blob, a temp file or a loaded object is a record: absent, half written,
\* Python None, or data
NoBlob == [kind |-> "absent"]
Corrupt == [kind |-> "corrupt"]
None == [kind |-> "none"]
Data(d) == [kind |-> "data", data |-> d]

-----------------------------------------------------------------------------
(* Small helpers *)

Max(S) == CHOOSE x \in S : \A y \in S : y <= x

MaxOf(a, b) == IF a >= b THEN a ELSE b

MinOf(a, b) == IF a <= b THEN a ELSE b

Range(s) == {s[i] : i \in 1..Len(s)}

RECURSIVE ConcatAll(_)
ConcatAll(ss) == IF ss = <<>> THEN <<>> ELSE Head(ss) \o ConcatAll(Tail(ss))

-----------------------------------------------------------------------------
(* Chunker: EmbeddingManager._split_into_chunks.  A text is the sequence of *)
(* its tokens; a token is a word, a sentence terminator "." or white space  *)
(* "_".  Decoding a token slice gives the slice's text.                     *)

IsSpace(tok) == tok = "_"

Blank(text) == \A i \in 1..Len(text) : IsSpace(text[i])

\* chunk_text.strip().endswith(('.', '!', '?', '\n'))
EndsSentence(text) ==
    LET nonWs == {i \in 1..Len(text) : ~IsSpace(text[i])}
    IN  nonWs # {} /\ text[Max(nonWs)] = "."

\* (variant of BackOff: the whole window is searched for a sentence end)
BackOffDeep(chunk_tokens) ==
    LET n == Len(chunk_tokens)
        cands == {k \in 1..n : EndsSentence(SubSeq(chunk_tokens, 1, k))}
    IN  IF cands # {} THEN SubSeq(chunk_tokens, 1, Max(cands)) ELSE chunk_tokens

\* lines 105-112: back off to a sentence end within the look-back window
BackOff(chunk_tokens) ==
    LET n == Len(chunk_tokens)
        cands == {k \in (MaxOf(0, n - lookback) + 2)..n :
                      EndsSentence(SubSeq(chunk_tokens, 1, k))}
    IN  IF cands # {} THEN SubSeq(chunk_tokens, 1, Max(cands)) ELSE chunk_tokens

\* (variant of EndIdx: the window is one token too long)
EndIdxWide(tokens, i, size) == MinOf(i + size + 1, Len(tokens))

\* line 102
EndIdx(tokens, i, size) == MinOf(i + size, Len(tokens))

\* A Python index into a list of n elements, as a slice bound
SliceBound(k, n) == IF k < 0 THEN MaxOf(k + n, 0) ELSE MinOf(k, n)

\* tokens[lo:hi]
PySlice(tokens, lo, hi) ==
    SubSeq(tokens, SliceBound(lo, Len(tokens)) + 1, SliceBound(hi, Len(tokens)))

\* lines 101-120: one iteration of the while loop, from window start i
ChunkStep(tokens, i, size) ==
    LET end_idx == EndIdx(tokens, i, size)
        window == PySlice(tokens, i, end_idx)
        chunk == IF end_idx < Len(tokens) THEN BackOff(window) ELSE window
    IN  [chunk |-> chunk,
         from |-> SliceBound(i, Len(tokens)),
         last |-> end_idx >= Len(tokens),
         next |-> end_idx - overlap_tokens]

\* lines 99-120: the while loop from window start i (0-based), size the window;
\* as a function it is defined when size exceeds overlap_tokens
RECURSIVE ChunkLoop(_, _, _)
ChunkLoop(tokens, i, size) ==
    IF i >= Len(tokens) THEN <<>>
    ELSE LET end_idx == EndIdx(tokens, i, size)
             window == SubSeq(tokens, i + 1, end_idx)
             chunk == IF end_idx < Len(tokens) THEN BackOff(window) ELSE window
         IN  IF end_idx >= Len(tokens) THEN <<chunk>>
             ELSE <<chunk>> \o ChunkLoop(tokens, end_idx - overlap_tokens, size)

SplitIntoChunks(text) ==
    IF Blank(text) THEN <<>> ELSE ChunkLoop(text, 0, chunk_size)

-----------------------------------------------------------------------------
(* process_and_embed_files, lines 44-65: chunks and their metadata records  *)

FileChunks(file) == SplitIntoChunks(file.content)

FileMetadata(file) ==
    LET chunks == FileChunks(file)
    IN  [i \in 1..Len(chunks) |->
            [file_id |-> file.id, file_name |-> file.name,
             chunk_index |-> i - 1, chunk_text |-> chunks[i]]]

AllMetadata(files) == ConcatAll([k \in 1..Len(files) |-> FileMetadata(files[k])])

AllChunks(files) == ConcatAll([k \in 1..Len(files) |-> FileChunks(files[k])])

\* (variant of NoChunks: the early return is missing)
NoChunksIgnored(all_chunks) == FALSE

\* line 72: if not all_chunks
NoChunks(all_chunks) == all_chunks = <<>>

\* The provider's vector for a text (text-embedding-ada-002 is a function of it)
Embedding(text) == [of |-> text]

-----------------------------------------------------------------------------
(* The dataroom contents the drive can return (download_dataroom_files)     *)

DocFund == [id |-> "d1", name |-> "Fund.txt", content |-> <<"a", "b", ".">>]
DocLong == [id |-> "d2", name |-> "Long.txt",
            content |-> <<"a", "b", ".", "c", "d", "e">>]
DocNote == [id |-> "d3", name |-> "Note.txt", content |-> <<"f", "_", "g">>]
DocBlank == [id |-> "d4", name |-> "Blank.txt", content |-> <<"_", "_">>]

\* DocLong's first chunk is backed off to "a b ." : the text of DocFund's chunk
Datarooms == { <<>>, <<DocBlank>>, <<DocFund>>, <<DocFund, DocLong, DocNote>> }

-----------------------------------------------------------------------------
(* RAGManager: the answer pipeline (rag_utils.py).  Every stage is the      *)
(* function of its arguments and of the reply of the external call it makes; *)
(* a reply of Raise stands for the call raising.                             *)

Raise == [kind |-> "raise"]

Reply(v) == [kind |-> "reply", value |-> v]

ErrorDetail == "provider error"     \* str(e) of a failed call

\* Similarity scores in tenths; line 174 keeps a hit when score > 0.5
score_floor == 5

\* line 256 keeps a chunk when its relevance score is >= 4
rerank_floor == 4

\* line 297: conversation_history[-10:]
history_limit == 10

\* line 149: all_queries[:4]
max_queries == 4

\* -- _classify_query_intent, lines 61-109 ---------------------------------

DefaultIntent ==
    [kind |-> "object", keys |-> {"level", "entities", "keywords", "exclude_keywords"},
     level |-> "general"]

\* What json.loads gives for replies that are well-formed JSON
JsonValues ==
    { [kind |-> "object",
       keys |-> {"level", "entities", "keywords", "exclude_keywords"},
       level |-> "fund-level"],
      [kind |-> "object", keys |-> {"entities"}, level |-> "absent"],
      [kind |-> "list", keys |-> {}, level |-> "absent"] }

NotJson == [kind |-> "text"]        \* a reply json.loads rejects

ClassifyReplies == {Raise, Reply(NotJson)} \cup {Reply(v) : v \in JsonValues}

ClassifyQueryIntent(reply) ==
    IF reply = Raise \/ reply.value = NotJson THEN DefaultIntent ELSE reply.value

\* -- _expand_query, lines 111-153 -----------------------------------------

\* str.strip() on a token sequence
RECURSIVE LStrip(_)
LStrip(text) ==
    IF text # <<>> /\ IsSpace(Head(text)) THEN LStrip(Tail(text)) ELSE text

RECURSIVE RStrip(_)
RStrip(text) ==
    IF text # <<>> /\ IsSpace(text[Len(text)])
    THEN RStrip(SubSeq(text, 1, Len(text) - 1)) ELSE text

Strip(text) == LStrip(RStrip(text))

\* lines 120-125 read intent['level'] and intent['entities']
IntentUsable(intent) ==
    intent.kind = "object" /\ {"level", "entities"} \subseteq intent.keys

\* line 145: one variation per non-empty line, stripped
RECURSIVE Variations(_)
Variations(lines) ==
    IF lines = <<>> THEN <<>>
    ELSE IF Strip(Head(lines)) # <<>>
         THEN <<Strip(Head(lines))>> \o Variations(Tail(lines))
         ELSE Variations(Tail(lines))

\* (variant of Take: the list is not capped)
TakeAll(seq, n) == seq

Take(seq, n) == SubSeq(seq, 1, MinOf(n, Len(seq)))

\* The chat call is made only when the prompt could be built
ExpandCalls(intent) == IF IntentUsable(intent) THEN 1 ELSE 0

\* (variant of ExpandQuery: a prompt is built from any intent)
ExpandQueryAnyIntent(query, intent, reply) ==
    IF reply = Raise
    THEN <<query>>
    ELSE Take(<<query>> \o Variations(reply.value), max_queries)

ExpandQuery(query, intent, reply) ==
    IF ~IntentUsable(intent) \/ reply = Raise
    THEN <<query>>
    ELSE Take(<<query>> \o Variations(reply.value), max_queries)

\* -- index.search, line 168 ------------------------------------------------

ScoreLevels == {score_floor - 1, score_floor, score_floor + 1}

\* A query scores every stored vector; equal vectors get equal scores
Scorings(index) == [Range(index.data) -> ScoreLevels]

Perms(n) == {f \in [1..n -> 1..n] : \A i, j \in 1..n : f[i] = f[j] => i = j}

\* The orders in which FAISS may list the vectors: descending score, ties open
Orders(index, sc) ==
    {f \in Perms(Len(index.data)) :
        \A i, j \in 1..Len(index.data) :
            i < j => sc[index.data[f[i]]] >= sc[index.data[f[j]]]}

Padding == [score |-> 0 - 1000, idx |-> 0 - 1]

\* (scores[0], indices[0]) zipped: top_k entries, padded when the index is short
Search(index, sc, order, top_k) ==
    [r \in 1..top_k |->
        IF r <= Len(index.data)
        THEN [score |-> sc[index.data[order[r]]], idx |-> order[r] - 1]
        ELSE Padding]

\* -- _get_relevant_context, lines 158-186 ----------------------------------

NoContext == [chunks |-> <<>>, sources |-> <<>>, seen |-> {}, hits |-> {},
              raised |-> FALSE]

\* (variant of AboveThreshold: a score of exactly 0.5 passes)
AtThreshold(score) == score >= score_floor

\* line 174
AboveThreshold(score) == score > score_floor

\* (variant of SourceName: the file id is listed)
SourceId(md) == md.file_id

\* line 184
SourceName(md) == md.file_name

\* (variant of IsNewChunk: the seen set is not consulted)
IsNewChunkUnseen(chunk_text, seen) == chunk_text # <<>>

\* line 179
IsNewChunk(chunk_text, seen) == chunk_text # <<>> /\ chunk_text \notin seen

\* History of one search result: acc.hits are the positions of the metadata
\* list that a search has given a score above 0.5
Noted(r, metadata, acc) ==
    IF r.idx < 0 \/ r.idx + 1 > Len(metadata) \/ r.score <= score_floor THEN acc
    ELSE [acc EXCEPT !.hits = @ \cup {r.idx}]

\* lines 172-186 for one search result
RECURSIVE MergeResults(_, _, _)
MergeResults(results, metadata, acc) ==
    IF results = <<>> \/ acc.raised THEN acc
    ELSE LET r == Head(results)
             hit == Noted(r, metadata, acc)
         IN  IF ~AboveThreshold(r.score) THEN MergeResults(Tail(results), metadata, hit)
             ELSE IF r.idx + 1 > Len(metadata)
             THEN [acc EXCEPT !.raised = TRUE]          \* IndexError
             ELSE LET md == metadata[r.idx + 1]
                      new == IF IsNewChunk(md.chunk_text, acc.seen)
                             THEN [hit EXCEPT
                                     !.chunks = Append(acc.chunks, md.chunk_text),
                                     !.seen = acc.seen \cup {md.chunk_text},
                                     !.sources =
                                        IF SourceName(md) \in Range(acc.sources)
                                        THEN acc.sources
                                        ELSE Append(acc.sources, SourceName(md))]
                             ELSE hit
                  IN  MergeResults(Tail(results), metadata, new)

\* -- _rerank_chunks_with_llm, lines 207-264 --------------------------------

Junk == 0 - 1       \* a field of the reply that is not a string of digits

IsDigits(field) == field >= 0

\* line 246
ParseScores(fields) == SelectSeq(fields, IsDigits)

\* (variant of ScoresMatch: too few scores are accepted)
ScoresMatchLoose(scores, chunks) == Len(scores) <= Len(chunks)

\* line 248
ScoresMatch(scores, chunks) == Len(scores) = Len(chunks)

\* line 250: zip stops at the shorter list
Zip(scores, chunks) ==
    [i \in 1..MinOf(Len(scores), Len(chunks)) |->
        [score |-> scores[i], chunk |-> chunks[i]]]

\* line 251: list.sort(key=score, reverse=True) is stable
RECURSIVE InsertDesc(_, _)
InsertDesc(x, sorted) ==
    IF sorted = <<>> THEN <<x>>
    ELSE IF Head(sorted).score >= x.score
         THEN <<Head(sorted)>> \o InsertDesc(x, Tail(sorted))
         ELSE <<x>> \o sorted

RECURSIVE SortDesc(_)
SortDesc(pairs) ==
    IF pairs = <<>> THEN <<>>
    ELSE InsertDesc(pairs[Len(pairs)], SortDesc(SubSeq(pairs, 1, Len(pairs) - 1)))

\* (variant of Relevant: a score of exactly 4 is dropped)
RelevantStrict(pair) == pair.score > rerank_floor

Relevant(pair) == pair.score >= rerank_floor

\* lines 256-257
FilterRanked(scored_chunks, chunks) ==
    LET kept == SelectSeq(scored_chunks, Relevant)
        filtered_chunks == [i \in 1..Len(kept) |-> kept[i].chunk]
    IN  IF filtered_chunks # <<>> THEN filtered_chunks ELSE <<chunks[1]>>

\* (variant of RerankCalls: the scorer is asked about any list)
RerankCallsAlways(chunks) == 1

RerankCalls(chunks) == IF Len(chunks) <= 1 THEN 0 ELSE 1

RerankChunksWithLlm(chunks, reply) ==
    IF Len(chunks) <= 1 THEN chunks
    ELSE IF reply = Raise THEN chunks
    ELSE LET scores == ParseScores(reply.value)
         IN  IF ScoresMatch(scores, chunks)
             THEN FilterRanked(SortDesc(Zip(scores, chunks)), chunks)
             ELSE chunks

\* -- _generate_answer, lines 266-321 ---------------------------------------

SystemMessage == [role |-> "system", content |-> [text |-> "system prompt"]]

\* line 269: "\n\n".join(context_chunks)
RECURSIVE JoinChunks(_)
JoinChunks(chunks) ==
    IF chunks = <<>> THEN <<>>
    ELSE IF Len(chunks) = 1 THEN chunks[1]
    ELSE chunks[1] \o <<"\n\n">> \o JoinChunks(Tail(chunks))

\* (variant of LastTurns: the oldest turns are kept)
LastTurnsOldest(history) == SubSeq(history, 1, MinOf(history_limit, Len(history)))

\* line 297
LastTurns(history) ==
    SubSeq(history, MaxOf(1, Len(history) - history_limit + 1), Len(history))

UserMessage(question, context_chunks) ==
    [role |-> "user",
     content |-> [context |-> JoinChunks(context_chunks), question |-> question]]

Messages(question, context_chunks, history) ==
    <<SystemMessage>> \o LastTurns(history) \o <<UserMessage(question, context_chunks)>>

\* (variant of GenerateFailure: the apology leaves the error out)
GenerateFailureBare(detail) == [text |-> "sorry, error while generating", detail |-> ""]

\* lines 319-321
GenerateFailure(detail) == [text |-> "sorry, error while generating", detail |-> detail]

GenerateAnswer(reply) ==
    IF reply = Raise THEN GenerateFailure(ErrorDetail)
    ELSE [text |-> reply.value, detail |-> ""]

\* -- answer_question, lines 35-59 ------------------------------------------

NoDocumentsAnswer == [text |-> "no documents yet", detail |-> ""]

NoRelevantAnswer == [text |-> "no relevant information", detail |-> ""]

\* (variant of NoIndexLoaded: the guard is missing)
NoIndexLoadedSkipped(index) == FALSE

\* line 38
NoIndexLoaded(index) == index = None

\* The locals of answer_question between two questions
NoIntent == [kind |-> "none", keys |-> {}, level |-> "absent"]

IdleChat ==
    [stage |-> "idle", history |-> <<>>, top_k |-> 0, noIndex |-> FALSE,
     intent |-> NoIntent, queries |-> <<>>, vi |-> 0, ctx |-> NoContext,
     reranked |-> "no", scores |-> <<>>, relevant_chunks |-> <<>>,
     messages |-> <<>>, calls |-> [embed |-> 0, chat |-> 0], failed |-> {},
     answer |-> [text |-> "", detail |-> ""], sources |-> <<>>]

-----------------------------------------------------------------------------
(* Service state *)

NoJob == [files |-> <<>>, chunks |-> <<>>, metadata |-> <<>>, embeddings |-> <<>>,
          batch |-> 0, before |-> <<NoBlob, NoBlob>>, active |-> FALSE]

\* What a failed update_embeddings leaves in the log: the stage whose call
\* raised and the number of vectors embedded before it
NoFailure == [at |-> "none", done |-> 0]

NoResponse == [proc |-> 0, status |-> "none", files_processed |-> 0,
               failure |-> NoFailure]

Response(p, status, n) ==
    [proc |-> p, status |-> status, files_processed |-> n, failure |-> NoFailure]

\* The response is the HTTP 500 of instance p
Failed(r, p) == r.proc = p /\ r.status = "error"

\* No _split_into_chunks call under way
IdleSplit == [stage |-> "idle", text |-> <<>>, size |-> chunk_size, i |-> 0,
              chunks |-> <<>>, spans |-> <<>>]

RebuildPcs == {"embed", "save", "upload_index", "upload_meta"}

Init ==
    /\ blobIndex = NoBlob
    /\ blobMeta = NoBlob
    /\ pc = [p \in Procs |-> "down"]
    /\ localIndex = [p \in Procs |-> NoBlob]
    /\ localMeta = [p \in Procs |-> NoBlob]
    /\ ragIndex = [p \in Procs |-> None]
    /\ ragMeta = [p \in Procs |-> None]
    /\ job = [p \in Procs |-> NoJob]
    /\ response = NoResponse
    /\ chat = IdleChat
    /\ split = IdleSplit
    /\ built = {}
    /\ faults = 0
    /\ nUpdates = 0

CanFail == faults < MaxFaults

Fault == faults' = faults + 1

NoFault == UNCHANGED faults

\* (variant of Http500: the error is swallowed and success reported)
Http500Swallowed(p) ==
    /\ response' = Response(p, "success", 0)
    /\ job' = [job EXCEPT ![p] = NoJob]
    /\ pc' = [pc EXCEPT ![p] = "idle"]

\* app.py update_embeddings, lines 135-137: HTTP 500, the call is over
Http500(p) ==
    /\ response' = [Response(p, "error", 0) EXCEPT
                       !.failure = [at |-> pc[p], done |-> Len(job[p].embeddings)]]
    /\ job' = [job EXCEPT ![p] = NoJob]
    /\ pc' = [pc EXCEPT ![p] = "idle"]

\* app.py startup_event: the managers are constructed; RAGManager.__init__
\* ends with load_index()
Startup(p) ==
    /\ pc[p] = "down"
    /\ pc' = [pc EXCEPT ![p] = "load_check"]
    /\ UNCHANGED <<blobIndex, blobMeta, localIndex, localMeta, ragIndex, ragMeta,
                   job, response, chat, split, built, faults, nUpdates>>

\* app.py update_embeddings, lines 108-122, and process_and_embed_files, lines
\* 44-76: download the dataroom, chunk every file
UpdateStart(p) ==
    /\ pc[p] = "idle"
    /\ nUpdates < MaxUpdates
    /\ nUpdates' = nUpdates + 1
    /\ UNCHANGED <<blobIndex, blobMeta, localIndex, localMeta, ragIndex, ragMeta,
                   chat, split, built>>
    /\ \/ /\ CanFail /\ Fault          \* download_dataroom_files raises
          /\ Http500(p)
       \/ /\ NoFault
          /\ \E files \in Datarooms :
               IF files = <<>>
               THEN /\ response' = Response(p, "success", 0)
                    /\ UNCHANGED <<pc, job>>
               ELSE /\ job' = [job EXCEPT ![p] =
                          [files |-> files, chunks |-> AllChunks(files),
                           metadata |-> AllMetadata(files), embeddings |-> <<>>,
                           batch |-> 0, before |-> <<blobIndex, blobMeta>>,
                           active |-> TRUE]]
                    /\ UNCHANGED response
                    /\ pc' = [pc EXCEPT ![p] =
                          IF NoChunks(AllChunks(files)) THEN "load_check" ELSE "embed"]

\* _create_embeddings, lines 187-202: one batch.  The provider answers with a
\* vector per input, with fewer vectors, or raises.
EmbedBatch(p) ==
    /\ pc[p] = "embed"
    /\ UNCHANGED <<blobIndex, blobMeta, localIndex, localMeta, ragIndex, ragMeta,
                   chat, split, built, nUpdates>>
    /\ LET j == job[p]
           n == Len(j.chunks)
           batch == SubSeq(j.chunks, j.batch + 1, MinOf(j.batch + batch_size, n))
           reply(k) == [i \in 1..k |-> Embedding(batch[i])]
           next(k) == [j EXCEPT !.embeddings = j.embeddings \o reply(k),
                                !.batch = j.batch + batch_size]
       IN  \/ /\ CanFail /\ Fault      \* embeddings.create raises
              /\ Http500(p)
           \/ \E k \in 0..Len(batch) :
                /\ IF k < Len(batch) THEN CanFail /\ Fault ELSE NoFault
                /\ job' = [job EXCEPT ![p] = next(k)]
                /\ pc' = [pc EXCEPT ![p] =
                      IF j.batch + batch_size >= n THEN "save" ELSE "embed"]
                /\ UNCHANGED response

\* _create_and_save_index, lines 209-219: build the index, write both temp files
SaveLocal(p) ==
    /\ pc[p] = "save"
    /\ UNCHANGED <<blobIndex, blobMeta, ragIndex, ragMeta, chat, split, nUpdates>>
    /\ LET j == job[p]
       IN  IF j.embeddings = <<>>
           THEN \* faiss rejects an array without rows
                /\ NoFault
                /\ Http500(p)
                /\ UNCHANGED <<localIndex, localMeta, built>>
           ELSE /\ built' = built \cup {<<Data(j.embeddings), Data(j.metadata)>>}
                /\ \/ /\ NoFault
                      /\ localIndex' = [localIndex EXCEPT ![p] = Data(j.embeddings)]
                      /\ localMeta' = [localMeta EXCEPT ![p] = Data(j.metadata)]
                      /\ pc' = [pc EXCEPT ![p] = "upload_index"]
                      /\ UNCHANGED <<job, response>>
                   \/ /\ CanFail /\ Fault      \* faiss.write_index fails
                      /\ localIndex' = [localIndex EXCEPT ![p] = Corrupt]
                      /\ UNCHANGED localMeta
                      /\ Http500(p)
                   \/ /\ CanFail /\ Fault      \* json.dump to the temp file fails
                      /\ localIndex' = [localIndex EXCEPT ![p] = Data(j.embeddings)]
                      /\ localMeta' = [localMeta EXCEPT ![p] = Corrupt]
                      /\ Http500(p)

\* _upload_to_storage(index_path, index_blob_name), line 222
UploadIndex(p) ==
    /\ pc[p] = "upload_index"
    /\ UNCHANGED <<blobMeta, localIndex, localMeta, ragIndex, ragMeta, chat, split, built,
                   nUpdates>>
    /\ \/ /\ NoFault
          /\ blobIndex' = localIndex[p]
          /\ pc' = [pc EXCEPT ![p] = "upload_meta"]
          /\ UNCHANGED <<job, response>>
       \/ /\ CanFail /\ Fault
          /\ UNCHANGED blobIndex
          /\ Http500(p)

\* _upload_to_storage(metadata_path, metadata_blob_name), line 223; then
\* update_embeddings goes on to rag_manager.load_index(), line 125
UploadMeta(p) ==
    /\ pc[p] = "upload_meta"
    /\ UNCHANGED <<blobIndex, localIndex, localMeta, ragIndex, ragMeta, chat, split, built,
                   nUpdates>>
    /\ \/ /\ NoFault
          /\ blobMeta' = localMeta[p]
          /\ pc' = [pc EXCEPT ![p] = "load_check"]
          /\ UNCHANGED <<job, response>>
       \/ /\ CanFail /\ Fault
          /\ UNCHANGED blobMeta
          /\ Http500(p)

\* End of RAGManager.load_index: back in __init__ (startup) or in
\* update_embeddings, lines 127-133, which reports success
FinishLoad(p) ==
    /\ pc' = [pc EXCEPT ![p] = "idle"]
    /\ job' = [job EXCEPT ![p] = NoJob]
    /\ response' = IF job[p].active
                   THEN Response(p, "success", Len(job[p].files))
                   ELSE response

\* RAGManager.load_index, line 23, and EmbeddingManager.index_exists: both
\* blobs exist (blobs are never deleted, so the two exists() calls and the
\* repeated check of EmbeddingManager.load_index, line 259, see the same answer)
LoadCheck(p) ==
    /\ pc[p] = "load_check"
    /\ UNCHANGED <<blobIndex, blobMeta, localIndex, localMeta, chat, split, built, nUpdates>>
    /\ \/ /\ NoFault
          /\ blobIndex # NoBlob /\ blobMeta # NoBlob
          /\ pc' = [pc EXCEPT ![p] = "load_index"]
          /\ UNCHANGED <<ragIndex, ragMeta, job, response>>
       \/ /\ \/ NoFault /\ ~(blobIndex # NoBlob /\ blobMeta # NoBlob)
             \/ CanFail /\ Fault      \* exists() raises: index_exists returns False
          /\ ragIndex' = [ragIndex EXCEPT ![p] = None]
          /\ ragMeta' = [ragMeta EXCEPT ![p] = None]
          /\ FinishLoad(p)

\* _download_from_storage(index_blob_name, index_path), line 263; a failed
\* download is swallowed (returns False) and leaves the old temp file or none
LoadIndexBlob(p) ==
    /\ pc[p] = "load_index"
    /\ pc' = [pc EXCEPT ![p] = "load_meta"]
    /\ UNCHANGED <<blobIndex, blobMeta, localMeta, ragIndex, ragMeta, job, response,
                   chat, split, built, nUpdates>>
    /\ \/ /\ NoFault
          /\ localIndex' = [localIndex EXCEPT ![p] = blobIndex]
       \/ /\ CanFail /\ Fault
          /\ \E f \in {localIndex[p], NoBlob} :
               localIndex' = [localIndex EXCEPT ![p] = f]

\* What faiss.read_index / json.load give for a temp file
Readable(f) == f.kind = "data"

\* _download_from_storage(metadata_blob_name, metadata_path), line 264, then
\* lines 267-273 read both temp files; RAGManager.load_index, lines 24-33
LoadMetaBlob(p) ==
    /\ pc[p] = "load_meta"
    /\ UNCHANGED <<blobIndex, blobMeta, localIndex, chat, split, built, nUpdates>>
    /\ \E f \in {blobMeta, localMeta[p], NoBlob} :
         /\ IF f = blobMeta THEN NoFault ELSE CanFail /\ Fault
         /\ localMeta' = [localMeta EXCEPT ![p] = f]
         /\ IF Readable(localIndex[p]) /\ Readable(f)
            THEN /\ ragIndex' = [ragIndex EXCEPT ![p] = localIndex[p]]
                 /\ ragMeta' = [ragMeta EXCEPT ![p] = f]
            ELSE /\ ragIndex' = [ragIndex EXCEPT ![p] = None]
                 /\ ragMeta' = [ragMeta EXCEPT ![p] = None]
    /\ FinishLoad(p)

\* app.py get_status, lines 175-176, and get_indexed_file_count: when both
\* blobs exist the metadata blob is downloaded to the temp file and counted; a
\* failed download or a failed exists() changes nothing
GetStatus(p) ==
    /\ pc[p] = "idle"
    /\ blobIndex # NoBlob /\ blobMeta # NoBlob
    /\ localMeta' = [localMeta EXCEPT ![p] = blobMeta]
    /\ UNCHANGED <<blobIndex, blobMeta, pc, localIndex, ragIndex, ragMeta, job,
                   response, chat, split, built, faults, nUpdates>>

Step(p) ==
    \/ Startup(p)
    \/ GetStatus(p)
    \/ UpdateStart(p)
    \/ EmbedBatch(p)
    \/ SaveLocal(p)
    \/ UploadIndex(p)
    \/ UploadMeta(p)
    \/ LoadCheck(p)
    \/ LoadIndexBlob(p)
    \/ LoadMetaBlob(p)

Next == \E p \in Procs : Step(p)

Spec == Init /\ [][Next]_vars

-----------------------------------------------------------------------------
(* answer_question as a process: one external call per step.  The calls of  *)
(* one question are made by instance 1; nothing else runs in the instance   *)
(* until answer_question returns.                                           *)

Question == <<"q">>

TopKs == {2, 5}             \* top_k (default 5)

Turn(i) == [role |-> IF i % 2 = 1 THEN "user" ELSE "assistant",
            content |-> [turn |-> i]]

History(n) == [i \in 1..n |-> Turn(i)]

\* conversation_history: None or empty, short, longer than the limit
Histories == {History(0), History(2), History(history_limit + 1)}

ExpandReplies ==
    { Raise,
      Reply(<<>>),
      Reply(<< <<"v1">> >>),
      Reply(<< <<"_", "v1", "_">>, <<"_">>, <<"v2">> >>),
      Reply(<< <<"v1">>, <<"v2">>, <<"v3">>, <<"v4">> >>) }

SeqsUpTo(S, n) == UNION {[1..k -> S] : k \in 0..n}

\* The scorer's reply, split at the commas: one score per chunk (two levels
\* below the floor, the floor, above it), or a reply with too few or too many
\* fields, some not digits
RerankReplies(chunks) ==
    {Raise}
        \cup {Reply(f) : f \in [1..Len(chunks) ->
                                   {rerank_floor - 2, rerank_floor - 1, rerank_floor,
                                    rerank_floor + 5}]}
        \cup {Reply(f) : f \in SeqsUpTo({Junk, rerank_floor + 5}, Len(chunks) + 1)}

GenerateReplies == {Raise, Reply("answer text")}

EmbedAll(chunks) == [i \in 1..Len(chunks) |-> Embedding(chunks[i])]

\* The snapshot a rebuild of a dataroom persists
Snapshot(files) ==
    [index |-> Data(EmbedAll(AllChunks(files))), meta |-> Data(AllMetadata(files))]

Indexable == {files \in Datarooms : AllChunks(files) # <<>>}

\* What a RAGManager can hold after load_index: nothing, a snapshot, or the
\* index of one snapshot with the metadata of another (see TornReadHappens)
RagStates ==
    {<<None, None>>}
        \cup {<<Snapshot(f).index, Snapshot(g).meta>> : f \in Indexable, g \in Indexable}

InitAnswer ==
    /\ \E rag \in RagStates :
         /\ ragIndex = [p \in Procs |-> rag[1]]
         /\ ragMeta = [p \in Procs |-> rag[2]]
         /\ blobIndex = IF rag[1] = None THEN NoBlob ELSE rag[1]
         /\ blobMeta = IF rag[2] = None THEN NoBlob ELSE rag[2]
    /\ pc = [p \in Procs |-> "idle"]
    /\ localIndex = [p \in Procs |-> blobIndex]
    /\ localMeta = [p \in Procs |-> blobMeta]
    /\ job = [p \in Procs |-> NoJob]
    /\ response = NoResponse
    /\ chat = IdleChat
    /\ split = IdleSplit
    /\ built = {}
    /\ faults = 0
    /\ nUpdates = 0

Service == <<blobIndex, blobMeta, pc, localIndex, localMeta, ragIndex, ragMeta,
             job, response, split, built, faults, nUpdates>>

\* answer_question returns (answer, sources)
Return(c, answer, sources) ==
    [c EXCEPT !.stage = "done", !.answer = answer, !.sources = sources]

\* lines 37-39
AnswerStart ==
    /\ chat.stage = "idle"
    /\ pc[1] = "idle"
    /\ UNCHANGED Service
    /\ \E top_k \in TopKs :
         LET c == [chat EXCEPT !.top_k = top_k, !.noIndex = (ragIndex[1] = None)]
         IN  chat' = IF NoIndexLoaded(ragIndex[1])
                     THEN Return(c, NoDocumentsAnswer, <<>>)
                     ELSE [c EXCEPT !.stage = "classify"]

\* _expand_query, line 115: _classify_query_intent
Classify ==
    /\ chat.stage = "classify"
    /\ UNCHANGED Service
    /\ \E reply \in ClassifyReplies :
         chat' = [chat EXCEPT
                    !.stage = "expand",
                    !.intent = ClassifyQueryIntent(reply),
                    !.calls.chat = @ + 1,
                    !.failed = IF reply = Raise \/ reply.value = NotJson
                               THEN @ \cup {"classify"} ELSE @]

\* _expand_query, lines 117-153
Expand ==
    /\ chat.stage = "expand"
    /\ UNCHANGED Service
    /\ \E reply \in ExpandReplies :
         chat' = [chat EXCEPT
                    !.stage = "retrieve",
                    !.intent = NoIntent,
                    !.queries = ExpandQuery(Question, chat.intent, reply),
                    !.vi = 1,
                    !.calls.chat = @ + ExpandCalls(chat.intent),
                    !.failed = IF ~IntentUsable(chat.intent) \/ reply = Raise
                               THEN @ \cup {"expand"} ELSE @]

\* _get_relevant_context returned ([], []) from its except clause, or its
\* chunk list is empty: answer_question, lines 49-50
NothingRelevant(c) == Return(c, NoRelevantAnswer, <<>>)

\* _get_relevant_context, lines 163-186, for the query variant chat.vi
RetrieveVariant ==
    /\ chat.stage = "retrieve"
    /\ UNCHANGED Service
    /\ LET called == [chat EXCEPT !.calls.embed = @ + 1]
           after(ctx) ==
               IF ctx.raised
               THEN NothingRelevant([called EXCEPT !.failed = @ \cup {"search"},
                                                   !.ctx = ctx])
               ELSE [called EXCEPT !.ctx = ctx, !.vi = @ + 1,
                                   !.stage = IF chat.vi = Len(chat.queries)
                                             THEN "rerank" ELSE "retrieve"]
       IN  \/ \* embed_query raises
              chat' = NothingRelevant([called EXCEPT !.failed = @ \cup {"embed"},
                                                     !.ctx.raised = TRUE])
           \/ /\ ragIndex[1] = None     \* None has no search()
              /\ chat' = after([chat.ctx EXCEPT !.raised = TRUE])
           \/ /\ ragIndex[1] # None
              /\ \E sc \in Scorings(ragIndex[1]) :
                   \E order \in Orders(ragIndex[1], sc) :
                     chat' = after(MergeResults(
                                 Search(ragIndex[1], sc, order, chat.top_k),
                                 ragMeta[1].data, chat.ctx))

\* _get_relevant_context, lines 191-201, and answer_question, lines 49-50
Rerank ==
    /\ chat.stage = "rerank"
    /\ UNCHANGED Service
    /\ LET chunks == chat.ctx.chunks
           after(reply) ==
               LET ranked == IF chunks # <<>> /\ Len(chat.queries) > 0
                             THEN RerankChunksWithLlm(chunks, reply) ELSE chunks
                   c == [chat EXCEPT
                           !.relevant_chunks = ranked,
                           !.reranked = IF RerankCalls(chunks) = 0 THEN "skipped"
                                        ELSE IF reply = Raise THEN "raised"
                                        ELSE "scored",
                           !.scores = IF RerankCalls(chunks) = 1 /\ reply # Raise
                                      THEN ParseScores(reply.value) ELSE <<>>,
                           !.calls.chat = @ + RerankCalls(chunks),
                           !.failed = IF RerankCalls(chunks) = 1 /\ reply = Raise
                                      THEN @ \cup {"rerank"} ELSE @]
               IN  IF ranked = <<>> THEN NothingRelevant(c)
                   ELSE [c EXCEPT !.stage = "generate"]
       IN  IF RerankCalls(chunks) = 0
           THEN chat' = after(Raise)
           ELSE \E reply \in RerankReplies(chunks) : chat' = after(reply)

\* _generate_answer and answer_question, lines 53-55; conversation_history is
\* an argument of answer_question that nothing reads before line 296
Generate ==
    /\ chat.stage = "generate"
    /\ UNCHANGED Service
    /\ \E reply \in GenerateReplies, history \in Histories :
         chat' = Return([chat EXCEPT
                           !.history = history,
                           !.messages = Messages(Question, chat.relevant_chunks,
                                                 history),
                           !.calls.chat = @ + 1,
                           !.failed = IF reply = Raise
                                      THEN @ \cup {"generate"} ELSE @],
                        GenerateAnswer(reply), chat.ctx.sources)

NextAnswer ==
    \/ AnswerStart
    \/ Classify
    \/ Expand
    \/ RetrieveVariant
    \/ Rerank
    \/ Generate

SpecAnswer == InitAnswer /\ [][NextAnswer]_vars

-----------------------------------------------------------------------------
(* _split_into_chunks as a process: called with a text, returns its chunks   *)

MaxTokens == 7

Tokens == {"a", ".", "_"}

Texts == SeqsUpTo(Tokens, MaxTokens)

InitSplit ==
    /\ blobIndex = NoBlob
    /\ blobMeta = NoBlob
    /\ pc = [p \in Procs |-> "idle"]
    /\ localIndex = [p \in Procs |-> NoBlob]
    /\ localMeta = [p \in Procs |-> NoBlob]
    /\ ragIndex = [p \in Procs |-> None]
    /\ ragMeta = [p \in Procs |-> None]
    /\ job = [p \in Procs |-> NoJob]
    /\ response = NoResponse
    /\ chat = IdleChat
    /\ \E text \in Texts : split = [IdleSplit EXCEPT !.stage = "called", !.text = text]
    /\ built = {}
    /\ faults = 0
    /\ nUpdates = 0

SplitText ==
    /\ split.stage = "called"
    /\ split' = [split EXCEPT !.stage = "done", !.chunks = SplitIntoChunks(split.text)]
    /\ UNCHANGED <<blobIndex, blobMeta, pc, localIndex, localMeta, ragIndex, ragMeta,
                   job, response, chat, built, faults, nUpdates>>

NextSplit == SplitText

SpecSplit == InitSplit /\ [][NextSplit]_vars

-----------------------------------------------------------------------------
(* The while loop of _split_into_chunks, one iteration per step, for an      *)
(* EmbeddingManager constructed with any chunk_size                          *)

\* EmbeddingManager(chunk_size): below, at and above overlap_tokens
Sizes == 1..chunk_size

InitLoop ==
    /\ blobIndex = NoBlob
    /\ blobMeta = NoBlob
    /\ pc = [p \in Procs |-> "idle"]
    /\ localIndex = [p \in Procs |-> NoBlob]
    /\ localMeta = [p \in Procs |-> NoBlob]
    /\ ragIndex = [p \in Procs |-> None]
    /\ ragMeta = [p \in Procs |-> None]
    /\ job = [p \in Procs |-> NoJob]
    /\ response = NoResponse
    /\ chat = IdleChat
    /\ \E text \in Texts, size \in Sizes :
          split = [IdleSplit EXCEPT !.stage = "called", !.text = text, !.size = size]
    /\ built = {}
    /\ faults = 0
    /\ nUpdates = 0

\* lines 92-99
LoopStart ==
    /\ split.stage = "called"
    /\ split' = [split EXCEPT !.stage = IF Blank(split.text) THEN "done" ELSE "loop"]
    /\ UNCHANGED <<blobIndex, blobMeta, pc, localIndex, localMeta, ragIndex, ragMeta,
                   job, response, chat, built, faults, nUpdates>>

\* lines 100-120.  A run of more iterations than the text has tokens is cut
\* off: it is a run that never ends.
LoopIter ==
    /\ split.stage = "loop"
    /\ Len(split.chunks) <= Len(split.text)
    /\ LET step == ChunkStep(split.text, split.i, split.size)
       IN  split' = [split EXCEPT
                       !.chunks = Append(@, step.chunk),
                       !.spans = Append(@, [from |-> step.from,
                                            to |-> step.from + Len(step.chunk)]),
                       !.i = IF step.last THEN @ ELSE step.next,
                       !.stage = IF step.last THEN "done" ELSE "loop"]
    /\ UNCHANGED <<blobIndex, blobMeta, pc, localIndex, localMeta, ragIndex, ragMeta,
                   job, response, chat, built, faults, nUpdates>>

NextLoop ==
    \/ LoopStart
    \/ LoopIter

SpecLoop == InitLoop /\ [][NextLoop]_vars

-----------------------------------------------------------------------------
(* Properties of the snapshot store *)

VectorCount(f) == Len(f.data)

\* C1: a reader never observes a partially written snapshot: with no failure
\* anywhere, the (index, metadata) pair a RAGManager holds after load_index
\* is one of the pairs some rebuild built, never the vectors of one rebuild
\* with the metadata of another.
NoTornRead ==
    faults = 0 =>
        \A p \in Procs : ragIndex[p] # None => <<ragIndex[p], ragMeta[p]>> \in built

\* A reader finished a load while some rebuild had uploaded the index blob only
TornReadHappens ==
    /\ faults = 0
    /\ \E p \in Procs : ragIndex[p] # None /\ <<ragIndex[p], ragMeta[p]>> \notin built

\* C2: a failed rebuild never corrupts the previously serving snapshot: when
\* process_and_embed_files fails, the two blobs are the ones that were there
\* when it started.
FailedRebuildKeepsSnapshot ==
    [][\A p \in Procs :
          (pc[p] \in RebuildPcs /\ pc'[p] = "idle" /\ Failed(response', p))
              => <<blobIndex', blobMeta'>> = job[p].before]_vars

\* C3: the snapshot a RAGManager holds and the persisted snapshot both have as
\* many vectors as metadata records.
CountsAgree ==
    /\ \A p \in Procs :
          ragIndex[p] # None => VectorCount(ragIndex[p]) = VectorCount(ragMeta[p])
    /\ (blobIndex # NoBlob /\ blobMeta # NoBlob)
          => VectorCount(blobIndex) = VectorCount(blobMeta)

\* C4: building an index from vectors and metadata of different lengths fails
\* and persists nothing.
MismatchedBuildFails ==
    [][\A p \in Procs :
          (/\ pc[p] \in {"save", "upload_index", "upload_meta"} /\ pc'[p] # pc[p]
           /\ Len(job[p].embeddings) # Len(job[p].metadata))
              => /\ pc'[p] = "idle" /\ Failed(response', p)
                 /\ blobIndex' = blobIndex
                 /\ blobMeta' = blobMeta]_vars

\* C5: at most one index rebuild is in flight at any time.
SingleWriter == Cardinality({p \in Procs : pc[p] \in RebuildPcs}) <= 1

\* The rebuild of instance p found no chunk in any document
EmptyRebuild(j) == j.active /\ j.chunks = <<>>

\* C16: a rebuild whose documents all yield zero chunks fails: the error
\* reaches the caller and update_embeddings does not report success.
EmptyRebuildFails ==
    [][\A p \in Procs :
          (EmptyRebuild(job[p]) /\ pc[p] # "idle" /\ pc'[p] = "idle")
              => Failed(response', p)]_vars

\* C17: a rebuild whose documents all yield zero chunks makes no embedding
\* call and leaves both blobs as they are: no step of it enters the embedding
\* or saving stages, produces a vector or changes a blob.
EmptyRebuildNoEffect ==
    [][\A p \in Procs :
          (/\ pc'[p] # pc[p]
           /\ EmptyRebuild(job[p]) \/ EmptyRebuild(job'[p]))
              => /\ pc'[p] \notin RebuildPcs
                 /\ job'[p].embeddings = <<>>
                 /\ built' = built
                 /\ blobIndex' = blobIndex
                 /\ blobMeta' = blobMeta]_vars

\* An empty rebuild ran over a persisted snapshot and is reloading it
EmptyRebuildOverSnapshot ==
    \E p \in Procs :
        /\ EmptyRebuild(job[p])
        /\ pc[p] = "load_meta"
        /\ blobIndex # NoBlob /\ blobMeta # NoBlob

\* C18: a failure of the embedding provider on any batch ends the rebuild
\* with an error for the caller; the batch is not retried and no blob is
\* written, also when earlier batches succeeded.
EmbedFailureAborts ==
    [][\A p \in Procs :
          (pc[p] = "embed" /\ pc'[p] = "idle")
              => /\ Failed(response', p)
                 /\ job'[p] = NoJob
                 /\ built' = built
                 /\ blobIndex' = blobIndex
                 /\ blobMeta' = blobMeta]_vars

\* The provider failed on a later batch of a rebuild over a persisted snapshot
LaterBatchFailed ==
    /\ response.status = "error"
    /\ response.failure.at = "embed"
    /\ response.failure.done > 0
    /\ blobIndex # NoBlob /\ blobMeta # NoBlob

\* C19: index_exists is true only when both blobs are present, and the two
\* blobs are written and read as a pair: a rebuild that wrote the index blob
\* writes the metadata blob, and the metadata blob is downloaded only next to
\* the index blob (by load_index) -- also by get_indexed_file_count.
BlobsMoveAsPair ==
    [][\A p \in Procs :
          /\ (pc[p] = "load_check" /\ pc'[p] = "load_index")
                => (blobIndex # NoBlob /\ blobMeta # NoBlob)
          /\ (pc[p] = "upload_meta" /\ pc'[p] # pc[p]) => blobMeta' = localMeta[p]
          /\ (localMeta'[p] # localMeta[p]) => pc[p] \in {"save", "load_meta"}]_vars

\* C27: when update_embeddings reports success with files_processed > 0, the
\* persisted snapshot and the snapshot the instance's RAGManager holds are
\* both the snapshot built from the files of that call.
SuccessServesNewSnapshot ==
    [][\A p \in Procs :
          (/\ job[p].active /\ pc[p] # "idle" /\ pc'[p] = "idle"
           /\ response'.proc = p /\ response'.status = "success"
           /\ response'.files_processed > 0)
              => LET snap == Snapshot(job[p].files)
                 IN  /\ blobIndex' = snap.index /\ blobMeta' = snap.meta
                     /\ ragIndex'[p] = snap.index /\ ragMeta'[p] = snap.meta]_vars

-----------------------------------------------------------------------------
(* Properties of the chunker (checked under SpecSplit) *)

IsSlice(chunk, tokens) ==
    \E i \in 0..(Len(tokens) - Len(chunk)) :
        SubSeq(tokens, i + 1, i + Len(chunk)) = chunk

\* C20: for every non-empty token stream, every chunk is a run of at most
\* chunk_size consecutive tokens of the stream.
ChunksWithinSize ==
    (split.stage = "done" /\ split.text # <<>>) =>
        \A k \in 1..Len(split.chunks) :
            /\ Len(split.chunks[k]) <= chunk_size
            /\ IsSlice(split.chunks[k], split.text)

\* A stream of three windows: one cut at a sentence end, one of full size
ThreeWindowsSplit ==
    /\ split.stage = "done"
    /\ Len(split.chunks) >= 3
    /\ Len(split.chunks[1]) < chunk_size
    /\ Len(split.chunks[2]) = chunk_size

\* C21: of two consecutive chunks, the last overlap_tokens tokens of the
\* first are the first overlap_tokens tokens of the second, also when the
\* first was cut back to a sentence end.
ChunksOverlap ==
    split.stage = "done" =>
        \A k \in 1..(Len(split.chunks) - 1) :
            LET a == split.chunks[k]
                b == split.chunks[k + 1]
            IN  /\ Len(a) >= overlap_tokens /\ Len(b) >= overlap_tokens
                /\ SubSeq(a, Len(a) - overlap_tokens + 1, Len(a))
                      = SubSeq(b, 1, overlap_tokens)

-----------------------------------------------------------------------------
(* Properties of the chunker's loop (checked under SpecLoop) *)

\* C22: the loop terminates for every text and every configured chunk_size:
\* each iteration that goes on to another moves the window start forward.
WindowAdvances ==
    [][(split.stage = "loop" /\ split'.stage = "loop") => split'.i > split.i]_vars

Covered(pos, spans) ==
    \E k \in 1..Len(spans) : spans[k].from < pos /\ pos <= spans[k].to

\* C29: chunking loses no content: for every non-empty token stream, with
\* chunk_size above the overlap, every token position is inside some chunk.
NoTokenLost ==
    (split.stage = "done" /\ split.size > overlap_tokens /\ split.text # <<>>) =>
        \A pos \in 1..Len(split.text) : Covered(pos, split.spans)

\* C29 as amended: the same for every text that is not only white space (a
\* text of white space is answered with no chunk before it is tokenised).
NoTokenLostUnlessBlank ==
    (split.stage = "done" /\ split.size > overlap_tokens /\ ~Blank(split.text)) =>
        /\ \A pos \in 1..Len(split.text) : Covered(pos, split.spans)
        /\ \A k \in 1..Len(split.spans) :
              SubSeq(split.text, split.spans[k].from + 1, split.spans[k].to)
                  = split.chunks[k]

\* Three windows, the first two cut back to a sentence end
CutBackTwice ==
    /\ split.stage = "done"
    /\ split.size = chunk_size
    /\ Len(split.chunks) >= 3
    /\ Len(split.chunks[1]) < split.size
    /\ Len(split.chunks[2]) < split.size

-----------------------------------------------------------------------------
(* Properties of answer_question (checked under SpecAnswer) *)

Answered == chat.stage = "done"

NoRepeat(seq) == \A i, j \in 1..Len(seq) : i # j => seq[i] # seq[j]

Occurrences(seq, x) == Cardinality({i \in 1..Len(seq) : seq[i] = x})

\* C6: answer_question called while no index is loaded returns the fixed
\* no-documents answer and no sources, and makes no embedding call and no
\* chat-completion call.
NoIndexNoCalls ==
    (Answered /\ chat.noIndex) =>
        /\ chat.answer = NoDocumentsAnswer
        /\ chat.sources = <<>>
        /\ chat.calls = [embed |-> 0, chat |-> 0]

AnsweredWithoutIndex == Answered /\ chat.noIndex /\ ragIndex[1] = None

\* C7: whatever stage fails, answer_question returns an answer string and a
\* source list; when the generative call fails, the answer is the apology
\* carrying the error detail.
FailuresBecomeAnswers ==
    Answered =>
        /\ chat.answer.text # ""
        /\ NoRepeat(chat.sources)
        /\ "generate" \in chat.failed =>
              /\ chat.answer.text = "sorry, error while generating"
              /\ chat.answer.detail = ErrorDetail

GenerateFailedAnswered ==
    Answered /\ {"classify", "expand", "rerank", "generate"} \subseteq chat.failed

\* C8: the chunk list _get_relevant_context returns (all variants merged, then
\* reranked) holds no chunk text twice.
NoChunkTwice ==
    chat.stage \in {"generate", "done"} => NoRepeat(chat.relevant_chunks)

\* Two variants (or two positions) surfaced the same text and the list went
\* through the reranker
SameTextSurfacedTwice ==
    /\ chat.stage = "generate"
    /\ Len(chat.queries) >= 2
    /\ chat.reranked = "scored"
    /\ \E i, j \in chat.ctx.hits :
          i # j /\ ragMeta[1].data[i + 1].chunk_text = ragMeta[1].data[j + 1].chunk_text

\* C9: when chunks of two different documents have the same text and both
\* score above 0.5, the merged chunk list holds the text once and the source
\* list holds both file names.
SameTextBothSources ==
    chat.stage = "rerank" =>
        \A i, j \in chat.ctx.hits :
            LET a == ragMeta[1].data[i + 1]
                b == ragMeta[1].data[j + 1]
            IN  (a.chunk_text = b.chunk_text /\ a.file_name # b.file_name) =>
                    /\ Occurrences(chat.ctx.chunks, a.chunk_text) = 1
                    /\ {a.file_name, b.file_name} \subseteq Range(chat.ctx.sources)

\* C10: a score reply whose parsed count differs from the number of chunks
\* leaves the chunk list exactly as it was.
WrongCountKeepsInput ==
    (/\ chat.stage \in {"generate", "done"}
     /\ chat.reranked = "scored"
     /\ Len(chat.scores) # Len(chat.ctx.chunks))
        => chat.relevant_chunks = chat.ctx.chunks

TooFewScoresSeen ==
    /\ chat.stage = "generate"
    /\ chat.reranked = "scored"
    /\ Len(chat.scores) < Len(chat.ctx.chunks)
    /\ Len(chat.scores) > 0
    /\ Len(chat.ctx.chunks) = 3

\* C11: reranking two or more chunks with one score per chunk, every score
\* below 4, returns a one-element list holding the chunk that received the
\* highest score.
LowScoresKeepBest ==
    (/\ chat.stage \in {"generate", "done"}
     /\ chat.reranked = "scored"
     /\ Len(chat.ctx.chunks) >= 2
     /\ Len(chat.scores) = Len(chat.ctx.chunks)
     /\ \A i \in 1..Len(chat.scores) : chat.scores[i] < rerank_floor)
        => /\ Len(chat.relevant_chunks) = 1
           /\ \E i \in 1..Len(chat.scores) :
                 /\ chat.ctx.chunks[i] = chat.relevant_chunks[1]
                 /\ \A j \in 1..Len(chat.scores) : chat.scores[j] <= chat.scores[i]

\* _expand_query has returned its list of query variants
Expanded == chat.stage \in {"retrieve", "rerank", "generate"} \/ chat.vi >= 1

\* C12: the list of query variants starts with the verbatim question and has
\* between 1 and 4 elements, whatever the model replied.
QueriesStartWithQuestion ==
    Expanded =>
        /\ Len(chat.queries) \in 1..max_queries
        /\ chat.queries[1] = Question

\* The reply had four lines: the fourth paraphrase was cut off
QueriesCapped ==
    /\ chat.stage = "retrieve"
    /\ Len(chat.queries) = max_queries
    /\ chat.queries[max_queries] = <<"v3">>

\* C13: when query expansion fails (the call raises, or the classified intent
\* cannot be used to build the prompt), _expand_query returns the one-element
\* list holding the question.
FailedExpansionKeepsQuestion ==
    (Expanded /\ "expand" \in chat.failed) => chat.queries = <<Question>>

\* Expansion failed on the intent: the only chat call so far is the classifier's
ExpansionFailedOnIntent ==
    /\ chat.stage = "retrieve"
    /\ "expand" \in chat.failed
    /\ "classify" \notin chat.failed
    /\ chat.calls.chat = 1

\* C14: a failed or malformed classification reply (unparseable, or JSON that
\* is not an object with level and entities) yields the default intent, so the
\* expansion that follows still asks the model for paraphrases.
MalformedIntentDefaults ==
    /\ chat.stage = "expand" =>
          (chat.intent = DefaultIntent \/ IntentUsable(chat.intent))
    /\ (chat.stage = "retrieve" /\ chat.vi = 1) => chat.calls.chat = 2

\* C15: when no hit of any query variant clears the threshold, retrieval
\* returns no chunks and no sources, and answer_question returns the
\* no-relevant-information answer with no sources, without a scoring call and
\* without an answer-generation call.
NothingClearsNoAnswerCalls ==
    (Answered /\ ~chat.noIndex /\ chat.ctx.hits = {} /\ ~chat.ctx.raised) =>
        /\ chat.ctx.chunks = <<>> /\ chat.ctx.sources = <<>>
        /\ chat.answer = NoRelevantAnswer
        /\ chat.sources = <<>>
        /\ chat.messages = <<>>
        /\ chat.calls.chat <= 2

NothingClearedAnswered ==
    /\ Answered /\ ~chat.noIndex
    /\ chat.ctx.hits = {} /\ ~chat.ctx.raised
    /\ Len(chat.queries) >= 2
    /\ chat.calls.embed = Len(chat.queries)
    /\ chat.calls.chat = 2

\* The reranker scored every chunk of a list of two or more
Scored ==
    /\ chat.stage \in {"generate", "done"}
    /\ chat.reranked = "scored"
    /\ Len(chat.ctx.chunks) >= 2
    /\ Len(chat.scores) = Len(chat.ctx.chunks)

\* The score given to a chunk of the retrieved list
ScoreOf(chunk) ==
    chat.scores[CHOOSE i \in 1..Len(chat.ctx.chunks) : chat.ctx.chunks[i] = chunk]

\* C23: with one score per chunk and some score at least 4, the reranker
\* returns exactly the chunks scoring at least 4 (a score of 4 included), in
\* descending order of score.
RerankKeepsRelevant ==
    (Scored /\ \E i \in 1..Len(chat.scores) : chat.scores[i] >= rerank_floor) =>
        LET rc == chat.relevant_chunks
            keep == {i \in 1..Len(chat.scores) : chat.scores[i] >= rerank_floor}
        IN  /\ Len(rc) = Cardinality(keep)
            /\ \A i \in keep : chat.ctx.chunks[i] \in Range(rc)
            /\ \A k \in 1..Len(rc) :
                  rc[k] \in Range(chat.ctx.chunks) /\ ScoreOf(rc[k]) >= rerank_floor
            /\ \A a, b \in 1..Len(rc) : a < b => ScoreOf(rc[a]) >= ScoreOf(rc[b])

\* Three chunks scored below 4, exactly 4 and above 4, in that order
RerankReordered ==
    /\ Scored
    /\ chat.stage = "generate"
    /\ Len(chat.scores) = 3
    /\ chat.scores[1] < rerank_floor
    /\ chat.scores[2] = rerank_floor
    /\ chat.scores[3] > rerank_floor

\* The chunk text stored at a position of the metadata list
TextAt(idx) == ragMeta[1].data[idx + 1].chunk_text

\* C24: every chunk retrieval returns scored above 0.5 for some query
\* variant; a candidate that never scored above 0.5 is not returned.
ReturnedChunksCleared ==
    /\ \A k \in 1..Len(chat.ctx.chunks) :
          \E idx \in chat.ctx.hits : TextAt(idx) = chat.ctx.chunks[k]
    /\ \A k \in 1..Len(chat.relevant_chunks) :
          \E idx \in chat.ctx.hits : TextAt(idx) = chat.relevant_chunks[k]

\* Every position was searched for two or more variants; one never scored
\* above 0.5 and its text is not returned, next to chunks that are
CandidateLeftOut ==
    /\ chat.stage = "generate"
    /\ Len(chat.queries) >= 2
    /\ chat.top_k >= Len(ragIndex[1].data)
    /\ chat.ctx.hits # {}
    /\ \E idx \in 0..(Len(ragMeta[1].data) - 1) :
          idx \notin chat.ctx.hits /\ TextAt(idx) \notin Range(chat.relevant_chunks)

\* C25: the messages sent for the answer are one system message, the last
\* min(10, n) turns of the caller's n-turn history in order and unchanged, and
\* one user message with the joined context and then the question; the
\* caller's list is as it was.
MessagesInOrder ==
    chat.messages # <<>> =>
        LET n == Len(chat.history)
            m == IF n < history_limit THEN n ELSE history_limit
            msgs == chat.messages
        IN  /\ chat.history = History(n)
            /\ Len(msgs) = m + 2
            /\ msgs[1] = SystemMessage
            /\ \A k \in 1..m : msgs[1 + k] = Turn(n - m + k)
            /\ \A k \in 2..(m + 2) : msgs[k].role # "system"
            /\ msgs[m + 2].role = "user"
            /\ msgs[m + 2].content.context = JoinChunks(chat.relevant_chunks)
            /\ msgs[m + 2].content.question = Question

\* A history longer than the limit was sent with a context of several chunks
LongHistorySent ==
    /\ Answered
    /\ Len(chat.history) = history_limit + 1
    /\ Len(chat.messages) = history_limit + 2
    /\ Len(chat.relevant_chunks) >= 2

\* C26: a failure to embed a query variant is fatal to retrieval: what the
\* earlier variants found is dropped, nothing is reranked, and the caller of
\* answer_question is told of the error, not that nothing relevant was found.
EmbedFailureReported ==
    (Answered /\ "embed" \in chat.failed) =>
        /\ chat.relevant_chunks = <<>>
        /\ chat.sources = <<>>
        /\ chat.reranked = "no"
        /\ chat.answer # NoRelevantAnswer
        /\ chat.answer.detail = ErrorDetail

\* answer_question returned an answer written by the model
Synthesized == Answered /\ chat.messages # <<>>

\* The file has a chunk in the context given to _generate_answer
FileInContext(name) ==
    \E idx \in 0..(Len(ragMeta[1].data) - 1) :
        /\ ragMeta[1].data[idx + 1].file_name = name
        /\ TextAt(idx) \in Range(chat.relevant_chunks)

\* C28: every source returned with a synthesized answer is the file name of
\* a chunk of the context passed to the synthesizer.
SourcesOfSurvivors ==
    Synthesized => \A k \in 1..Len(chat.sources) : FileInContext(chat.sources[k])

\* C28 as amended: every source returned with a synthesized answer is the
\* file name of a chunk that scored above 0.5 in retrieval, whether or not the
\* reranker kept it.
SourcesOfCandidates ==
    Synthesized =>
        \A k \in 1..Len(chat.sources) :
            \E idx \in chat.ctx.hits :
                ragMeta[1].data[idx + 1].file_name = chat.sources[k]

\* The reranker dropped every chunk of a file that stays in the sources
SourceWithoutSurvivor ==
    /\ Synthesized
    /\ chat.reranked = "scored"
    /\ \E k \in 1..Len(chat.sources) : ~FileInContext(chat.sources[k])

====
